---- MODULE Spec2Model ----
(***************************************************************************)
(* Verification model of the marine-insurance report generator:            *)
(*   - RAGChain._context_from_retriever (bounded context assembly)         *)
(*   - InsuranceReportService.generate_insurance_report_pdf and            *)
(*     ReportService.generate_and_save_report (report jobs)                *)
(*   - save_report_pdf and get_report_path (artifact store)                *)
(* Text is modelled as a sequence of one-character strings.  Hangul        *)
(* characters of the source literals are written as one ASCII token per    *)
(* character, so every literal keeps its length.                           *)
(***************************************************************************)
EXTENDS Integers, Sequences, FiniteSets, TLC

\* ------------------------------------------------------------------ bounds
MaxChunkLen == 2
MaxDocs == 2
MaxL == 5
MaxTasks == 2

\* add calls made on the vector store
MaxAdds == 2

\* add_user and add_ai calls made on a session that already has a history
MaxMemCalls == 4

\* requests the report endpoints receive
MaxRequests == 4

\* requests the ingestion endpoints receive
MaxIngests == 2

\* ------------------------------------------------------- program constants
\* RAGChain.__init__(max_context_len: int = 3000)
DefaultMaxContextLen == 3000

\* messages[-20:] in MemoryManager.history_text
HistoryWindow == 20

NoneV == "<None>"
Missing == "<missing key>"

\* ------------------------------------------------------------ text helpers
Alphabet == {"a", "b"}

RECURSIVE TextsUpTo(_)
TextsUpTo(n) ==
    IF n = 0 THEN {<<>>}
    ELSE LET shorter == TextsUpTo(n - 1)
         IN  shorter \cup {Append(s, c) : s \in {x \in shorter : Len(x) = n - 1}, c \in Alphabet}

\* str.join: sep.join(parts); the empty list joins to the empty string
RECURSIVE Join(_, _)
Join(parts, sep) ==
    IF Len(parts) = 0 THEN <<>>
    ELSE IF Len(parts) = 1 THEN parts[1]
    ELSE parts[1] \o sep \o Join(Tail(parts), sep)

\* Python slice s[:n] for n >= 0
SliceTo(s, n) == SubSeq(s, 1, IF n < Len(s) THEN n ELSE Len(s))

EndsWith(s, suffix) ==
    /\ Len(suffix) <= Len(s)
    /\ SubSeq(s, Len(s) - Len(suffix) + 1, Len(s)) = suffix

NL == "\n"

\* "\n\n...(문맥 길이 초과로 일부 생략됨)"  (23 characters)
TruncationMarker ==
    <<NL, NL, ".", ".", ".", "(", "mun", "maek", " ", "gil", "i", " ",
      "cho", "gwa", "ro", " ", "il", "bu", " ", "saeng", "ryak", "doem", ")">>

\* "\n\n[참고 문서 출처]\n"  (13 characters)
SourcesHeader ==
    <<NL, NL, "[", "cham", "go", " ", "mun", "seo", " ", "chul", "cheo", "]", NL>>

Unknown == <<"u", "n", "k", "n", "o", "w", "n">>

\* ----------------------------------------------------- retrieved documents
SourceIds == {<<"x">>, <<"y">>}

\* a Document: page_content and metadata; metadata is a dict that has the
\* key 'source' (a string) or lacks it
NoSource == [has_source |-> FALSE, source |-> <<>>]

Metadatas == {[has_source |-> TRUE, source |-> s] : s \in SourceIds} \cup {NoSource}

Documents == [page_content : TextsUpTo(MaxChunkLen), metadata : Metadatas]

RECURSIVE SeqsUpTo(_, _)
SeqsUpTo(S, n) ==
    IF n = 0 THEN {<<>>}
    ELSE LET shorter == SeqsUpTo(S, n - 1)
         IN  shorter \cup {Append(s, e) : s \in {x \in shorter : Len(x) = n - 1}, e \in S}

RetrievalResults == SeqsUpTo(Documents, MaxDocs)

\* ------------------------------------------ RAGChain._context_from_retriever
\* merged = "\n\n".join([d.page_content for d in docs])
Merged(docs) == Join([i \in 1..Len(docs) |-> docs[i].page_content], <<NL, NL>>)

\* if len(merged) > self.max_context_len: merged = merged[:max_context_len] + marker
TruncateDropsMarker(merged, L) ==
    IF Len(merged) > L THEN SliceTo(merged, L) ELSE merged
TruncateKeepsOneMore(merged, L) ==
    IF Len(merged) > L THEN SliceTo(merged, L + 1) \o TruncationMarker ELSE merged
Truncate(merged, L) ==
    IF Len(merged) > L THEN SliceTo(merged, L) \o TruncationMarker ELSE merged

\* d.metadata.get('source', 'unknown')
SourceOfBlankDefault(d) == IF d.metadata.has_source THEN d.metadata.source ELSE <<>>
SourceOf(d) == IF d.metadata.has_source THEN d.metadata.source ELSE Unknown

\* sources = "\n".join([f"- {source}" for d in docs])
SourceLines(docs) ==
    Join([i \in 1..Len(docs) |-> <<"-", " ">> \o SourceOf(docs[i])], <<NL>>)

\* merged += f"\n\n[참고 문서 출처]\n{sources}"
SourcesSection(docs) == SourcesHeader \o SourceLines(docs)

\* if self.include_sources: merged += sources section
AppendSourcesAlways(body, docs, include_sources) == body \o SourcesSection(docs)
AppendSources(body, docs, include_sources) ==
    IF include_sources THEN body \o SourcesSection(docs) ELSE body

ContextFromRetriever(docs, L, include_sources) ==
    AppendSources(Truncate(Merged(docs), L), docs, include_sources)

\* ----------------------------------------------------------- report jobs
TaskIds == 1..MaxTasks

\* task_id = str(uuid.uuid4()): an id no earlier task has
NewTaskIdReused(used) == 1
NewTaskId(used) == CHOOSE i \in TaskIds : i \notin used

\* os.getenv("REPORTS_DIR", "./storage/reports"), the same for both services
ReportsDir == "./storage/reports"

\* os.path.join(self.reports_dir, f"{task_id}.pdf")
ReportPathFixedName(task_id) == <<ReportsDir, 0, ".pdf">>
ReportPath(task_id) == <<ReportsDir, task_id, ".pdf">>

NoPath == <<>>

\* what the LLM may answer, and what the retriever may return, in a job
LLMTexts == {<<>>, <<"a">>}

JobDoc == [page_content |-> <<"a">>, metadata |-> NoSource]

JobRetrievals == {<<>>, <<JobDoc>>}

ReportTexts == {<<"r">>}

ItArgs == {NoneV, "FIRE"}

ItPayloads == {Missing, NoneV}

\* str.lower() on the type strings the model uses
Lower(s) ==
    CASE s = "FIRE" -> "fire"
      [] s = "Fire" -> "fire"
      [] s = "OIL_SPILL" -> "oil_spill"
      [] s = "Collision" -> "collision"
      [] s = "Crew_Injury" -> "crew_injury"
      [] s = "UNKNOWN" -> "unknown"
      [] OTHER -> s

\* (incident_type or incident_data.get("incident_type", "generic")).lower()
ResolveType(incident_type, payload_type) ==
    LET chosen == IF incident_type \notin {NoneV, ""} THEN incident_type
                  ELSE IF payload_type = Missing THEN "generic"
                  ELSE payload_type
    IN  IF chosen = NoneV THEN "AttributeError" ELSE Lower(chosen)

\* self._build_seed_query(incident_data, incident_type or ""), and in it
\* itype = (incident_type or incident_data.get("incident_type", "generic")).lower()
SeedTypeArgOnly(incident_type, payload_type) ==
    ResolveType(IF incident_type = NoneV THEN "" ELSE incident_type, Missing)
SeedType(incident_type, payload_type) ==
    ResolveType(IF incident_type = NoneV THEN "" ELSE incident_type, payload_type)

\* the keyword hint _build_seed_query puts in the seed, named by its type
SeedHint(itype) ==
    CASE itype = "fire" -> "fire_hint"
      [] itype = "oil_spill" -> "oil_spill_hint"
      [] itype = "collision" -> "collision_hint"
      [] itype = "crew_injury" -> "crew_injury_hint"
      [] OTHER -> "generic_hint"

\* rag_ctx = ""
EmptyRagCtxNonEmpty == <<"a">>
EmptyRagCtx == <<>>

\* self.llm.invoke(prompt): one call, no retry
InvokeLLMWithRetry(calls) == calls + 2
InvokeLLM(calls) == calls + 1

\* def save_report_pdf(path, title, answer, incident_data=None, subtitle=None)
SaveReportPdfParams == {"path", "title", "answer", "incident_data", "subtitle"}

\* save_report_pdf(path, title=title, question=q, answer=report_text)
SaveCallKwargs == {"title", "question", "answer"}

\* outcomes of one call of save_report_pdf: an unexpected keyword is a
\* TypeError raised before the body runs; otherwise doc.build(content)
\* writes the file, or fails before or after it has opened the file
SaveReportPdfLenient(kwargs) ==
    {[error |-> "none", file |-> "complete"],
     [error |-> "RenderError", file |-> "none"],
     [error |-> "RenderError", file |-> "partial"]}
SaveReportPdf(kwargs) ==
    IF ~(kwargs \subseteq SaveReportPdfParams)
    THEN {[error |-> "TypeError", file |-> "none"]}
    ELSE {[error |-> "none", file |-> "complete"],
          [error |-> "RenderError", file |-> "none"],
          [error |-> "RenderError", file |-> "partial"]}

\* except Exception as e: print(...); raise e
ExceptSwallow(e) == "none"
ExceptReraise(e) == e

\* -------------------------------------------------------------------- state
VARIABLES
    a_pc,       \* assembler call: "input" before the call, "done" after it
    a_docs,     \* docs returned by retriever.get_relevant_documents
    a_L,        \* self.max_context_len
    a_inc,      \* self.include_sources
    a_body,     \* merged after the truncation step (rag_chain.py:111)
    a_out       \* value returned by _context_from_retriever

VARIABLES
    tasks,      \* task id -> the job run for it (locals and position)
    files,      \* artifact store: the files that exist, [path, content]
    sessions    \* MemoryManager.sessions: sid -> chat_memory.messages

VARIABLES
    c_pc,        \* ReportChain.generate_report: "input" before, "done" after
    c_key,       \* its incident_type argument
    c_data,      \* its incident_data argument
    c_template,  \* the template _select_template returned
    c_formatted  \* the text _format_incident_data returned

VARIABLES
    s_mode,     \* how the installed store writes: at once, or when persisted
    s_disk,     \* persist_dir: collection name -> the chunks stored under it
    s_calls,    \* add call id -> its locals and position
    s_result    \* what the last count or retrieval returned

VARIABLES
    h_calls,    \* add_user and add_ai calls made so far on the session
    h_sid,      \* the sid of the last history_text call
    h_text      \* what that call returned

VARIABLES
    p_minted,     \* task ids uuid4 has given to the request handlers
    p_scheduled,  \* BackgroundTasks: the jobs added, in order
    p_responses   \* what the handlers have answered, in order

VARIABLES
    g_task,     \* the task id of the last get_report_path call
    g_result    \* what that call returned

asmVars == <<a_pc, a_docs, a_L, a_inc, a_body, a_out>>

jobVars == <<tasks, files, sessions>>

chainVars == <<c_pc, c_key, c_data, c_template, c_formatted>>

memVars == <<h_calls, h_sid, h_text>>

apiVars == <<p_minted, p_scheduled, p_responses>>

pathVars == <<g_task, g_result>>

storeVars == <<s_mode, s_disk, s_calls, s_result>>

vars == <<a_pc, a_docs, a_L, a_inc, a_body, a_out, tasks, files, sessions,
          c_pc, c_key, c_data, c_template, c_formatted,
          s_mode, s_disk, s_calls, s_result, h_calls, h_sid, h_text,
          p_minted, p_scheduled, p_responses, g_task, g_result>>

\* what a step of a report job leaves alone
nonJobVars == <<asmVars, chainVars, storeVars, memVars, apiVars, pathVars>>

\* what a call of _context_from_retriever leaves alone
nonAsmVars == <<jobVars, chainVars, storeVars, memVars, apiVars, pathVars>>

\* what a call of ReportChain.generate_report leaves alone
nonChainVars == <<asmVars, jobVars, storeVars, memVars, apiVars, pathVars>>

\* what a call on the vector store leaves alone
nonStoreVars == <<asmVars, jobVars, chainVars, memVars, apiVars, pathVars>>

\* what a direct call on the MemoryManager leaves alone
nonMemVars == <<asmVars, tasks, files, chainVars, storeVars, apiVars, pathVars>>

\* what a request handler leaves alone
nonApiVars == <<asmVars, jobVars, chainVars, storeVars, memVars, pathVars>>

\* ------------------------------------------------------------ ReportChain
\* self.templates: the keys and the template each one holds
Templates ==
    [k \in {"fire", "oil_spill", "collision", "crew_injury"} |->
        CASE k = "fire" -> "_fire_template"
          [] k = "oil_spill" -> "_oil_template"
          [] k = "collision" -> "_collision_template"
          [] k = "crew_injury" -> "_injury_template"]

GenericTemplate == "_generic_template"

\* key = (incident_type or "generic").lower(); self.templates[key] if present
SelectTemplateCaseSensitive(incident_type) ==
    LET key == IF incident_type \in {NoneV, ""} THEN "generic" ELSE incident_type
    IN  IF key \in DOMAIN Templates THEN Templates[key] ELSE GenericTemplate
SelectTemplate(incident_type) ==
    LET key == Lower(IF incident_type \in {NoneV, ""} THEN "generic" ELSE incident_type)
    IN  IF key \in DOMAIN Templates THEN Templates[key] ELSE GenericTemplate

\* the keys _format_incident_data walks through, in its order
FieldOrder == <<"incident_type", "description", "location", "report_type", "language">>

\* label_map: "사고유형", "설명", "발생위치", "보고서 유형", "언어"
LabelMap ==
    [k \in {"incident_type", "description", "location", "report_type", "language"} |->
        CASE k = "incident_type" -> <<"sa", "go", "yu", "hyeong">>
          [] k = "description" -> <<"seol", "myeong">>
          [] k = "location" -> <<"bal", "saeng", "wi", "chi">>
          [] k = "report_type" -> <<"bo", "go", "seo", " ", "yu", "hyeong">>
          [] k = "language" -> <<"eon", "eo">>]

\* "(제공된 데이터 없음)"
NoDataPlaceholder ==
    <<"(", "je", "gong", "doen", " ", "de", "i", "teo", " ", "eops", "eum", ")">>

\* a value data.get(key) can give: the key is missing, or holds None or a string
FieldMissing == [kind |-> "missing", val |-> <<>>]

FieldNone == [kind |-> "none", val |-> <<>>]

FieldValues ==
    {FieldMissing, FieldNone, [kind |-> "str", val |-> <<>>], [kind |-> "str", val |-> <<"p">>]}

\* a key of incident_data that label_map does not know
ExtraField == "vessel"

ExtraValues == {FieldMissing, [kind |-> "str", val |-> <<"z">>]}

IncidentDatas ==
    {d \in [DOMAIN LabelMap \cup {ExtraField} -> FieldValues \cup ExtraValues] :
        /\ d[ExtraField] \in ExtraValues
        /\ \A k \in DOMAIN LabelMap : d[k] \in FieldValues}

\* if val is not None and val != "": lines.append(f"- {label}: {val}")
ShownKeepsEmpty(v) == v.kind = "str"
Shown(v) == v.kind = "str" /\ v.val # <<>>

RECURSIVE FormatLines(_, _)
FormatLines(data, keys) ==
    IF keys = <<>> THEN <<>>
    ELSE LET key == Head(keys)
             val == data[key]
             line == <<"-", " ">> \o LabelMap[key] \o <<":", " ">> \o val.val
         IN  (IF Shown(val) THEN <<line>> ELSE <<>>) \o FormatLines(data, Tail(keys))

\* return "\n".join(lines) if lines else "(제공된 데이터 없음)"
FormatIncidentData(data) ==
    LET lines == FormatLines(data, FieldOrder)
    IN  IF lines # <<>> THEN Join(lines, <<NL>>) ELSE NoDataPlaceholder

TemplateKeys ==
    {NoneV, "", "fire", "FIRE", "Fire", "oil_spill", "OIL_SPILL", "collision",
     "Collision", "crew_injury", "Crew_Injury", "UNKNOWN", "generic", "fire "}

ChainIdle ==
    /\ c_pc = "input"
    /\ c_key = NoneV
    /\ c_data = [k \in DOMAIN LabelMap \cup {ExtraField} |-> FieldMissing]
    /\ c_template = NoneV
    /\ c_formatted = <<>>

\* no get_report_path call made yet
PathIdle ==
    /\ g_task = 0
    /\ g_result = NoPath

\* no task started, no artifact, no session
JobIdle ==
    /\ tasks = <<>>
    /\ files = {}
    /\ sessions = <<>>

AsmIdle ==
    /\ a_pc = "input"
    /\ a_docs = <<>>
    /\ a_L = DefaultMaxContextLen
    /\ a_inc = TRUE
    /\ a_body = <<>>
    /\ a_out = <<>>

\* ----------------------------------------------------- VectorStoreService
Collections == {"A", "B"}

\* how many chunks self.splitter.split_documents makes of the texts of a call
ChunkCounts == {1, 2}

\* the k a retriever is asked for
TopKs == {1}

\* Chroma keeps what was added at once, or keeps it in the handle until
\* persist() is called, depending on the installed version
StoreModes == {"write_through", "buffered"}

\* a stored chunk: the collection its add call named, the call, its position
Chunk(collection, call, idx) == [origin |-> collection, call |-> call, idx |-> idx]

\* what persist_dir may hold of a collection when the service starts
Preloaded(collection) == {{}, {Chunk(collection, 0, 1)}}

\* Chroma(collection_name=collection, ...): the collection a handle is bound to
ChromaSharedCollection(collection) == "A"
Chroma(collection) == collection

\* chunks = self._split(docs)
SplitChunks(collection, call, n) == {Chunk(collection, call, i) : i \in 1..n}

\* return len(chunks)
ReturnedCount(chunks) == Cardinality(chunks)

\* self._chroma(collection)._collection.count()
Count(collection) == Cardinality(s_disk[Chroma(collection)])

\* store = self._chroma(collection); store.as_retriever(search_kwargs={"k": k})
GetRetriever(collection, k) == [store |-> Chroma(collection), k |-> k]

\* what a retriever may return: at most k of the chunks of its store
Retrievals(retriever) ==
    {docs \in SUBSET s_disk[retriever.store] : Cardinality(docs) <= retriever.k}

NoResult == [op |-> "none", collection |-> "A", n |-> 0, docs |-> {}]

StoreIdle ==
    /\ s_mode = "write_through"
    /\ s_disk = [c \in Collections |-> {}]
    /\ s_calls = <<>>
    /\ s_result = NoResult

\* ------------------------------------------------------- request handlers
\* the fields of the pydantic model IncidentReportRequest
IncidentReportRequestFields ==
    {"incident_type", "description", "location", "report_type", "language",
     "use_rag", "collection", "top_k", "model", "title"}

\* the fields of the pydantic model ReportGenerationRequest
ReportGenerationRequestFields ==
    {"question", "collection", "top_k", "model", "temperature"}

\* the attributes of req each handler reads while it builds the add_task call
InsuranceHandlerReads ==
    {"incident_data", "use_rag", "collection", "top_k", "title", "model"}

ReportHandlerReads == {"question", "collection", "top_k", "model", "temperature"}

\* reading an attribute a pydantic model does not have raises AttributeError
ReadAttrs(fields, reads) == IF reads \subseteq fields THEN "none" ELSE "AttributeError"

\* valid bodies of POST /generate/insurance and of POST /generate-report
IncidentRequests ==
    [incident_type : {"fire", "FIRE", "collision", "UNKNOWN"}, use_rag : BOOLEAN]

ReportRequests == [question : {<<"p">>, <<"q">>}]

\* ReportTaskResponse(task_id=task_id), or HTTPException(status_code=500)
TaskResponse(endpoint, task_id) ==
    [endpoint |-> endpoint, status |-> 200, task_id |-> task_id]

ErrorResponse(endpoint) == [endpoint |-> endpoint, status |-> 500, task_id |-> 0]

\* str(uuid.uuid4()): a value no earlier call has returned
Uuid4(used) == CHOOSE i \in 1..MaxRequests : i \notin used

ApiIdle ==
    /\ p_minted = {}
    /\ p_scheduled = <<>>
    /\ p_responses = <<>>

\* ------------------------------------------------------------ job steps
\* session ids: None, one a caller passes in, or str(uuid.uuid4()) minted
\* by ensure (one fresh value per job that calls it)
NoSid == <<>>

CallerSid == <<"caller">>

MintedSid(id) == <<"uuid4", id>>

Question == <<"q">>

\* ----------------------------------------------------------- MemoryManager
\* chat_memory.add_user_message(text) / add_ai_message(text)
HumanMessage(text) == [type |-> "human", content |-> text]

AIMessage(text) == [type |-> "ai", content |-> text]

MessageTexts == {<<"p">>, <<"q">>}

\* role = "사용자" if m.type == "human" else "AI"
RoleLabel(m) == IF m.type = "human" THEN <<"sa", "yong", "ja">> ELSE <<"A", "I">>

\* messages[-n:]
FirstN(messages, n) ==
    SubSeq(messages, 1, IF Len(messages) > n THEN n ELSE Len(messages))
LastN(messages, n) ==
    SubSeq(messages, IF Len(messages) > n THEN Len(messages) - n + 1 ELSE 1, Len(messages))

\* history_text(sid)
HistoryText(all, sid) ==
    IF sid \notin DOMAIN all THEN <<>>
    ELSE LET recent == LastN(all[sid], HistoryWindow)
             formatted == [i \in 1..Len(recent) |->
                             RoleLabel(recent[i]) \o <<":", " ">> \o recent[i].content]
         IN  Join(formatted, <<NL>>)

\* append a message to a session, creating the session when it is unknown
AppendMessageTwice(all, sid, m) ==
    [s \in DOMAIN all \cup {sid} |->
        LET old == IF s \in DOMAIN all THEN all[s] ELSE <<>>
        IN  IF s = sid THEN Append(Append(old, m), m) ELSE old]
AppendMessage(all, sid, m) ==
    [s \in DOMAIN all \cup {sid} |->
        LET old == IF s \in DOMAIN all THEN all[s] ELSE <<>>
        IN  IF s = sid THEN Append(old, m) ELSE old]

\* a session nobody created
OtherSid == <<"other">>

\* histories a session may hold already: none, and two of 18 messages
LongHistories ==
    {<<>>,
     [i \in 1..(HistoryWindow - 2) |->
        IF i % 2 = 1 THEN HumanMessage(<<"p">>) ELSE AIMessage(<<"q">>)],
     [i \in 1..(HistoryWindow - 2) |-> HumanMessage(<<"q">>)]}

MemIdle ==
    /\ h_calls = 0
    /\ h_sid = NoSid
    /\ h_text = <<>>

NewTask(kind, use_rag, it_arg, it_payload, session_id) ==
    [kind |-> kind, use_rag |-> use_rag, incident_type |-> it_arg,
     payload_type |-> it_payload, session_id |-> session_id, sid |-> NoSid,
     pc |-> "created", seed_type |-> NoneV, docs |-> <<>>, retrieved |-> FALSE,
     context |-> <<>>, rag_answer |-> <<>>, rag_ctx |-> <<>>,
     resolved_type |-> NoneV, generated |-> FALSE, answer |-> <<>>,
     rag_llm_calls |-> 0, report_llm_calls |-> 0,
     prompt_history |-> <<>>, seed_hint |-> NoneV, template |-> NoneV, path |-> NoPath, fault |-> "none", outcome |-> "none"]

Register(id, rec) ==
    tasks' = [t \in DOMAIN tasks \cup {id} |-> IF t = id THEN rec ELSE tasks[t]]

Update(id, rec) == tasks' = [tasks EXCEPT ![id] = rec]

\* an exception that nothing catches leaves the job
Raise(id, rec, e) ==
    Update(id, [rec EXCEPT !.pc = "raised", !.fault = e, !.outcome = e])

\* a job is handed generate_insurance_report_pdf(task_id, incident_data,
\* incident_type, use_rag, ...) with a freshly minted task id
StartInsuranceTask ==
    /\ Cardinality(DOMAIN tasks) < MaxTasks
    /\ \E use_rag \in BOOLEAN, it_arg \in ItArgs, it_payload \in ItPayloads :
         Register(NewTaskId(DOMAIN tasks),
                  NewTask("insurance", use_rag, it_arg, it_payload, NoSid))
    /\ UNCHANGED <<files, sessions>>
    /\ UNCHANGED nonJobVars

\* a job is handed generate_and_save_report(task_id, question, session_id, ...)
StartQATask ==
    /\ Cardinality(DOMAIN tasks) < MaxTasks
    /\ \E session_id \in {NoSid, CallerSid} :
         Register(NewTaskId(DOMAIN tasks),
                  NewTask("qa", TRUE, NoneV, Missing, session_id))
    /\ UNCHANGED <<files, sessions>>
    /\ UNCHANGED nonJobVars

\* MemoryManager.ensure: sid = session_id or str(uuid.uuid4())
Ensure(session_id, fresh) == IF session_id = NoSid THEN fresh ELSE session_id

\* generate_insurance_report_pdf up to the retrieval call:
\* rag_ctx = ""; if use_rag: seed = self._build_seed_query(...)
BeginInsurance(id) ==
    /\ id \in DOMAIN tasks
    /\ tasks[id].kind = "insurance"
    /\ tasks[id].pc = "created"
    /\ LET rec == [tasks[id] EXCEPT !.rag_ctx = EmptyRagCtx]
           itype == SeedType(rec.incident_type, rec.payload_type)
       IN  IF ~rec.use_rag
           THEN Update(id, [rec EXCEPT !.pc = "generating"])
           ELSE IF itype = "AttributeError"
           THEN Raise(id, rec, "AttributeError")
           ELSE Update(id, [rec EXCEPT !.pc = "retrieving", !.seed_type = itype,
                                       !.seed_hint = SeedHint(itype)])
    /\ UNCHANGED <<files, sessions>>
    /\ UNCHANGED nonJobVars

\* qa_with_memory up to the retrieval call: sid = self.memory.ensure(session_id),
\* history = self.memory.history_text(sid), which goes into the prompt that
\* rag.run holds until it has returned or raised
BeginQA(id) ==
    /\ id \in DOMAIN tasks
    /\ tasks[id].kind = "qa"
    /\ tasks[id].pc = "created"
    /\ LET sid == Ensure(tasks[id].session_id, MintedSid(id))
       IN  /\ sessions' = [s \in DOMAIN sessions \cup {sid} |->
                             IF s \in DOMAIN sessions THEN sessions[s] ELSE <<>>]
           /\ Update(id, [tasks[id] EXCEPT !.pc = "retrieving", !.sid = sid,
                                          !.prompt_history = HistoryText(sessions', sid)])
    /\ UNCHANGED files
    /\ UNCHANGED nonJobVars

\* rag.run: docs = self.retriever.get_relevant_documents(question), then the
\* context is assembled with the RAGChain defaults and include_sources=True
Retrieve(id) ==
    /\ id \in DOMAIN tasks
    /\ tasks[id].pc = "retrieving"
    /\ \/ \E docs \in JobRetrievals :
            Update(id, [tasks[id] EXCEPT
                          !.pc = "rag_llm", !.docs = docs, !.retrieved = TRUE,
                          !.context = ContextFromRetriever(docs, DefaultMaxContextLen, TRUE)])
       \/ Raise(id, [tasks[id] EXCEPT !.prompt_history = <<>>], "RetrievalError")
    /\ UNCHANGED <<files, sessions>>
    /\ UNCHANGED nonJobVars

\* rag.run: prompt | self.llm | self.parser
RagLLM(id) ==
    /\ id \in DOMAIN tasks
    /\ tasks[id].pc = "rag_llm"
    /\ LET rec == [tasks[id] EXCEPT !.rag_llm_calls = InvokeLLM(@), !.prompt_history = <<>>]
       IN  \/ \E text \in LLMTexts :
                IF rec.kind = "insurance"
                THEN Update(id, [rec EXCEPT !.pc = "generating",
                                            !.rag_answer = text, !.rag_ctx = text])
                ELSE Update(id, [rec EXCEPT !.pc = "add_user",
                                            !.rag_answer = text, !.answer = text])
           \/ Raise(id, rec, "GenerationError")
    /\ UNCHANGED <<files, sessions>>
    /\ UNCHANGED nonJobVars

\* MemoryManager.add_user / add_ai: ensure the session, append the message;
\* after add_ai the job is back in generate_and_save_report, which computes
\* path = os.path.join(self.reports_dir, f"{task_id}.pdf")
AddUser(id) ==
    /\ id \in DOMAIN tasks
    /\ tasks[id].pc = "add_user"
    /\ sessions' = AppendMessage(sessions, tasks[id].sid, HumanMessage(Question))
    /\ Update(id, [tasks[id] EXCEPT !.pc = "add_ai"])
    /\ UNCHANGED files
    /\ UNCHANGED nonJobVars

AddAi(id) ==
    /\ id \in DOMAIN tasks
    /\ tasks[id].pc = "add_ai"
    /\ sessions' = AppendMessage(sessions, tasks[id].sid, AIMessage(tasks[id].answer))
    /\ Update(id, [tasks[id] EXCEPT !.pc = "saving", !.path = ReportPath(id)])
    /\ UNCHANGED files
    /\ UNCHANGED nonJobVars

\* ReportChain(...); resolved_type = ...; chain.generate_report(...)
Generate(id) ==
    /\ id \in DOMAIN tasks
    /\ tasks[id].pc = "generating"
    /\ LET rec == tasks[id]
           itype == ResolveType(rec.incident_type, rec.payload_type)
       IN  IF itype = "AttributeError"
           THEN Raise(id, rec, "AttributeError")
           ELSE LET called == [rec EXCEPT !.resolved_type = itype,
                                          !.template = SelectTemplate(itype),
                                          !.report_llm_calls = InvokeLLM(@)]
                IN  \/ \E text \in ReportTexts :
                         Update(id, [called EXCEPT !.pc = "saving", !.path = ReportPath(id),
                                                   !.generated = TRUE, !.answer = text])
                    \/ Raise(id, called, "GenerationError")
    /\ UNCHANGED <<files, sessions>>
    /\ UNCHANGED nonJobVars

\* the file save_report_pdf leaves at path, if any
WriteFile(path, content) ==
    IF content = "none" THEN files
    ELSE {f \in files : f.path # path} \cup {[path |-> path, content |-> content]}

\* path = os.path.join(...); try: save_report_pdf(...) except: raise e; return path
SaveInsurance(id) ==
    /\ id \in DOMAIN tasks
    /\ tasks[id].kind = "insurance"
    /\ tasks[id].pc = "saving"
    /\ \E res \in SaveReportPdf(SaveCallKwargs) :
         /\ files' = WriteFile(ReportPath(id), res.file)
         /\ LET surfaced == IF res.error = "none" THEN "none" ELSE ExceptReraise(res.error)
                rec == [tasks[id] EXCEPT !.fault = res.error]
            IN  IF surfaced = "none"
                THEN Update(id, [rec EXCEPT !.pc = "returned", !.outcome = "returned"])
                ELSE Update(id, [rec EXCEPT !.pc = "raised", !.outcome = surfaced])
    /\ UNCHANGED sessions
    /\ UNCHANGED nonJobVars

\* path = os.path.join(...); save_report_pdf(...)   (no handler)
SaveQA(id) ==
    /\ id \in DOMAIN tasks
    /\ tasks[id].kind = "qa"
    /\ tasks[id].pc = "saving"
    /\ \E res \in SaveReportPdf(SaveCallKwargs) :
         /\ files' = WriteFile(ReportPath(id), res.file)
         /\ IF res.error = "none"
            THEN Update(id, [tasks[id] EXCEPT !.pc = "returned", !.outcome = "returned"])
            ELSE Raise(id, tasks[id], res.error)
    /\ UNCHANGED sessions
    /\ UNCHANGED nonJobVars

\* get_report_path: path if os.path.exists(path) else None
get_report_path_unchecked(task_id) == ReportPath(task_id)
get_report_path(task_id) ==
    IF \E f \in files : f.path = ReportPath(task_id)
    THEN ReportPath(task_id) ELSE NoPath

\* ReportService.get_report_path: the same two lines in the QA service
qa_get_report_path_by_status(task_id) ==
    IF task_id \in DOMAIN tasks /\ tasks[task_id].pc = "returned"
    THEN ReportPath(task_id) ELSE NoPath
qa_get_report_path(task_id) ==
    IF \E f \in files : f.path = ReportPath(task_id)
    THEN ReportPath(task_id) ELSE NoPath

\* the id of a task of an earlier run of the service; uuid4 never gives it again
OldTaskId == 0

\* the job's status as its caller sees it: still running, returned, or raised
Status(id) ==
    IF tasks[id].pc = "returned" THEN "done"
    ELSE IF tasks[id].pc = "raised" THEN "failed"
    ELSE "pending"

Init ==
    AsmIdle /\ JobIdle /\ ChainIdle /\ StoreIdle /\ MemIdle /\ ApiIdle /\ PathIdle

Next ==
    \/ StartInsuranceTask
    \/ StartQATask
    \/ \E id \in TaskIds : BeginInsurance(id)
    \/ \E id \in TaskIds : BeginQA(id)
    \/ \E id \in TaskIds : Retrieve(id)
    \/ \E id \in TaskIds : RagLLM(id)
    \/ \E id \in TaskIds : AddUser(id)
    \/ \E id \in TaskIds : AddAi(id)
    \/ \E id \in TaskIds : Generate(id)
    \/ \E id \in TaskIds : SaveInsurance(id)
    \/ \E id \in TaskIds : SaveQA(id)

Spec == Init /\ [][Next]_vars

\* one call of generate_report(incident_data, rag_context, incident_type)
ChainInit ==
    /\ c_pc = "input"
    /\ c_key \in TemplateKeys
    /\ c_data \in IncidentDatas
    /\ c_template = NoneV
    /\ c_formatted = <<>>
    /\ AsmIdle
    /\ JobIdle
    /\ StoreIdle
    /\ MemIdle
    /\ ApiIdle
    /\ PathIdle

\* formatted_incident = self._format_incident_data(incident_data)
\* prompt_template = self._select_template(incident_type)
BuildPrompt ==
    /\ c_pc = "input"
    /\ c_formatted' = FormatIncidentData(c_data)
    /\ c_template' = SelectTemplate(c_key)
    /\ c_pc' = "done"
    /\ UNCHANGED <<c_key, c_data>>
    /\ UNCHANGED nonChainVars

ChainNext == BuildPrompt

SpecChain == ChainInit /\ [][ChainNext]_vars

\* the service is constructed over a persist_dir that may hold collections
StoreInit ==
    /\ s_mode \in StoreModes
    /\ s_disk \in [Collections -> UNION {Preloaded(c) : c \in Collections}]
    /\ \A c \in Collections : s_disk[c] \in Preloaded(c)
    /\ s_calls = <<>>
    /\ s_result = NoResult
    /\ AsmIdle
    /\ JobIdle
    /\ ChainIdle
    /\ MemIdle
    /\ ApiIdle
    /\ PathIdle

StoreUpdate(id, rec) == s_calls' = [s_calls EXCEPT ![id] = rec]

\* add_from_texts(collection, texts) is called: docs are built from the texts
StartAdd ==
    /\ Len(s_calls) < MaxAdds
    /\ \E collection \in Collections :
         s_calls' = Append(s_calls,
                           [collection |-> collection, pc |-> "split", chunks |-> {},
                            store |-> collection, view |-> {}, returned |-> 0])
    /\ UNCHANGED <<s_mode, s_disk, s_result>>
    /\ UNCHANGED nonStoreVars

\* chunks = self._split(docs)
AddSplit(id) ==
    /\ id \in DOMAIN s_calls
    /\ s_calls[id].pc = "split"
    /\ \E n \in ChunkCounts :
         StoreUpdate(id, [s_calls[id] EXCEPT
                            !.chunks = SplitChunks(s_calls[id].collection, id, n),
                            !.pc = "open"])
    /\ UNCHANGED <<s_mode, s_disk, s_result>>
    /\ UNCHANGED nonStoreVars

\* store = self._chroma(collection): the handle sees what is on disk now
AddOpen(id) ==
    /\ id \in DOMAIN s_calls
    /\ s_calls[id].pc = "open"
    /\ LET store == Chroma(s_calls[id].collection)
       IN  StoreUpdate(id, [s_calls[id] EXCEPT
                              !.store = store,
                              !.view = IF s_mode = "buffered" THEN s_disk[store] ELSE {},
                              !.pc = "add"])
    /\ UNCHANGED <<s_mode, s_disk, s_result>>
    /\ UNCHANGED nonStoreVars

\* store.add_documents(chunks)
AddDocuments(id) ==
    /\ id \in DOMAIN s_calls
    /\ s_calls[id].pc = "add"
    /\ LET rec == s_calls[id]
       IN  IF s_mode = "buffered"
           THEN /\ StoreUpdate(id, [rec EXCEPT !.view = rec.view \cup rec.chunks,
                                               !.pc = "persist"])
                /\ UNCHANGED s_disk
           ELSE /\ s_disk' = [s_disk EXCEPT ![rec.store] = s_disk[rec.store] \cup rec.chunks]
                /\ StoreUpdate(id, [rec EXCEPT !.pc = "persist"])
    /\ UNCHANGED <<s_mode, s_result>>
    /\ UNCHANGED nonStoreVars

\* self._persist(collection): the collection state the call holds goes to disk
AddPersist(id) ==
    /\ id \in DOMAIN s_calls
    /\ s_calls[id].pc = "persist"
    /\ LET rec == s_calls[id]
       IN  /\ s_disk' = IF s_mode = "buffered"
                        THEN [s_disk EXCEPT ![Chroma(rec.collection)] = rec.view]
                        ELSE s_disk
           /\ StoreUpdate(id, [rec EXCEPT !.pc = "return"])
    /\ UNCHANGED <<s_mode, s_result>>
    /\ UNCHANGED nonStoreVars

\* return len(chunks)
AddReturn(id) ==
    /\ id \in DOMAIN s_calls
    /\ s_calls[id].pc = "return"
    /\ StoreUpdate(id, [s_calls[id] EXCEPT !.returned = ReturnedCount(s_calls[id].chunks),
                                           !.pc = "returned"])
    /\ UNCHANGED <<s_mode, s_disk, s_result>>
    /\ UNCHANGED nonStoreVars

\* count(collection)
CountCollection ==
    /\ \E collection \in Collections :
         s_result' = [op |-> "count", collection |-> collection,
                      n |-> Count(collection), docs |-> {}]
    /\ UNCHANGED <<s_mode, s_disk, s_calls>>
    /\ UNCHANGED nonStoreVars

\* get_retriever(collection, k) and one retrieval with the retriever it gave
RetrieveFrom ==
    /\ \E collection \in Collections, k \in TopKs :
         \E docs \in Retrievals(GetRetriever(collection, k)) :
            s_result' = [op |-> "retrieve", collection |-> collection,
                         n |-> Cardinality(docs), docs |-> docs]
    /\ UNCHANGED <<s_mode, s_disk, s_calls>>
    /\ UNCHANGED nonStoreVars

StoreNext ==
    \/ StartAdd
    \/ \E id \in 1..MaxAdds :
         \/ AddSplit(id)
         \/ AddOpen(id)
         \/ AddDocuments(id)
         \/ AddPersist(id)
         \/ AddReturn(id)
    \/ CountCollection
    \/ RetrieveFrom

SpecStore == StoreInit /\ [][StoreNext]_vars

\* a MemoryManager with one session, its history imported or made earlier
MemInit ==
    /\ sessions \in {[s \in {CallerSid} |-> h] : h \in LongHistories}
    /\ tasks = <<>>
    /\ files = {}
    /\ MemIdle
    /\ AsmIdle
    /\ ChainIdle
    /\ StoreIdle
    /\ ApiIdle
    /\ PathIdle

\* add_user(sid, text)
MemAddUser ==
    /\ h_calls < MaxMemCalls
    /\ \E text \in MessageTexts :
         sessions' = AppendMessage(sessions, CallerSid, HumanMessage(text))
    /\ h_calls' = h_calls + 1
    /\ UNCHANGED <<h_sid, h_text>>
    /\ UNCHANGED nonMemVars

\* add_ai(sid, text)
MemAddAi ==
    /\ h_calls < MaxMemCalls
    /\ \E text \in MessageTexts :
         sessions' = AppendMessage(sessions, CallerSid, AIMessage(text))
    /\ h_calls' = h_calls + 1
    /\ UNCHANGED <<h_sid, h_text>>
    /\ UNCHANGED nonMemVars

\* history_text(sid)
RenderHistory ==
    /\ \E sid \in {CallerSid, OtherSid} :
         /\ h_sid' = sid
         /\ h_text' = HistoryText(sessions, sid)
    /\ UNCHANGED <<h_calls, sessions>>
    /\ UNCHANGED nonMemVars

MemNext == MemAddUser \/ MemAddAi \/ RenderHistory

SpecMem == MemInit /\ [][MemNext]_vars

\* one handler: task_id = str(uuid.uuid4()); the arguments of add_task are
\* evaluated; add_task queues the job; the task id is returned. Any exception
\* on the way becomes HTTPException(500).
Handle(endpoint, fields, reads, job) ==
    LET task_id == Uuid4(p_minted)
        raised == ReadAttrs(fields, reads)
    IN  /\ p_minted' = p_minted \cup {task_id}
        /\ IF raised = "none"
           THEN /\ p_scheduled' = Append(p_scheduled, [job EXCEPT !.task_id = task_id])
                /\ p_responses' = Append(p_responses, TaskResponse(endpoint, task_id))
           ELSE /\ p_scheduled' = p_scheduled
                /\ p_responses' = Append(p_responses, ErrorResponse(endpoint))

\* POST /generate-report
PostGenerateReport ==
    /\ Len(p_responses) < MaxRequests
    /\ \E req \in ReportRequests :
         Handle("generate-report", ReportGenerationRequestFields, ReportHandlerReads,
                [fn |-> "generate_and_save_report", task_id |-> 0,
                 arg |-> <<"question", req.question>>])
    /\ UNCHANGED nonApiVars

\* POST /generate/insurance
PostGenerateInsurance ==
    /\ Len(p_responses) < MaxRequests
    /\ \E req \in IncidentRequests :
         Handle("generate/insurance", IncidentReportRequestFields, InsuranceHandlerReads,
                [fn |-> "generate_insurance_report_pdf", task_id |-> 0,
                 arg |-> <<req.incident_type, req.use_rag>>])
    /\ UNCHANGED nonApiVars

ApiInit == Init

ApiNext == PostGenerateReport \/ PostGenerateInsurance

SpecApi == ApiInit /\ [][ApiNext]_vars

\* one insurance job, over any incident type argument and payload, beside
\* get_report_path calls of both services; reports_dir outlives the process,
\* so it may hold a report of an earlier run when the service starts
TaskInit ==
    /\ tasks = <<>>
    /\ files \in {{}, {[path |-> ReportPath(OldTaskId), content |-> "complete"]}}
    /\ sessions = <<>>
    /\ AsmIdle
    /\ ChainIdle
    /\ StoreIdle
    /\ MemIdle
    /\ ApiIdle
    /\ PathIdle

StartTypedTask ==
    /\ tasks = <<>>
    /\ \E use_rag \in BOOLEAN, it_arg \in TemplateKeys,
          it_payload \in TemplateKeys \cup {Missing} :
         Register(NewTaskId(DOMAIN tasks),
                  NewTask("insurance", use_rag, it_arg, it_payload, NoSid))
    /\ UNCHANGED <<files, sessions>>
    /\ UNCHANGED nonJobVars

\* insurance_service.get_report_path(task_id) / qa_service.get_report_path(task_id)
GetReportPath ==
    /\ \E task_id \in TaskIds \cup {OldTaskId} :
         /\ g_task' = task_id
         /\ \/ g_result' = get_report_path(task_id)
            \/ g_result' = qa_get_report_path(task_id)
    /\ UNCHANGED <<asmVars, jobVars, chainVars, storeVars, memVars, apiVars>>

TaskNext ==
    \/ StartTypedTask
    \/ \E id \in TaskIds : BeginInsurance(id)
    \/ \E id \in TaskIds : Retrieve(id)
    \/ \E id \in TaskIds : RagLLM(id)
    \/ \E id \in TaskIds : Generate(id)
    \/ \E id \in TaskIds : SaveInsurance(id)
    \/ GetReportPath

SpecTask == TaskInit /\ [][TaskNext]_vars

\* ------------------------------------------------------ ingestion handlers
\* a value of the Optional[List[str]] fields urls and texts of IngestRequest
ListValues == {[given |-> FALSE, items |-> <<>>], [given |-> TRUE, items |-> <<>>], [given |-> TRUE, items |-> <<"x">>]}

IngestRequests == [urls : ListValues, texts : ListValues, collection : Collections]

\* not req.urls: None and the empty list are both falsy
Falsy(list) == ~list.given \/ list.items = <<>>

\* HTTPException(status_code=...), and an exception of another class
HTTPException(status) == [raised |-> TRUE, status |-> status]

OtherException == [raised |-> TRUE, status |-> 0]

\* except Exception as e: raise HTTPException(status_code=500, detail=str(e));
\* HTTPException is a subclass of Exception, so the clause catches it too
ExceptException(e) == IF e.raised THEN HTTPException(500) ELSE e

\* what the endpoint answers: the status of the exception that left the
\* handler, or 200 with the count the add call returned
IngestResponse(endpoint, req, e, added) ==
    [endpoint |-> endpoint, req |-> req,
     status |-> IF e.raised THEN e.status ELSE 200, added |-> added]

\* the body of a handler: the 400 check, then vs.add_from_urls or
\* vs.add_from_texts run to its end (the handler never awaits), all in try
Ingest(endpoint, req, list) ==
    IF Falsy(list)
    THEN /\ p_responses' = Append(p_responses,
                              IngestResponse(endpoint, req, ExceptException(HTTPException(400)), 0))
         /\ UNCHANGED <<s_disk, s_calls>>
    ELSE \/ \E n \in ChunkCounts :
              LET id == Len(s_calls) + 1
                  chunks == SplitChunks(req.collection, id, n)
                  store == Chroma(req.collection)
              IN  /\ s_disk' = [s_disk EXCEPT ![store] = @ \cup chunks]
                  /\ s_calls' = Append(s_calls,
                                   [collection |-> req.collection, pc |-> "returned",
                                    chunks |-> chunks, store |-> store, view |-> {},
                                    returned |-> ReturnedCount(chunks)])
                  /\ p_responses' = Append(p_responses,
                                       IngestResponse(endpoint, req, ExceptException([raised |-> FALSE, status |-> 0]),
                                                      ReturnedCount(chunks)))
         \/ /\ p_responses' = Append(p_responses,
                                 IngestResponse(endpoint, req, ExceptException(OtherException), 0))
            /\ UNCHANGED <<s_disk, s_calls>>

\* POST /ingest/urls
IngestUrls ==
    /\ Len(p_responses) < MaxIngests
    /\ \E req \in IngestRequests : Ingest("ingest/urls", req, req.urls)
    /\ UNCHANGED <<s_mode, s_result, p_minted, p_scheduled>>
    /\ UNCHANGED <<asmVars, jobVars, chainVars, memVars, pathVars>>

\* POST /ingest/texts
IngestTexts ==
    /\ Len(p_responses) < MaxIngests
    /\ \E req \in IngestRequests : Ingest("ingest/texts", req, req.texts)
    /\ UNCHANGED <<s_mode, s_result, p_minted, p_scheduled>>
    /\ UNCHANGED <<asmVars, jobVars, chainVars, memVars, pathVars>>

IngestNext == IngestUrls \/ IngestTexts

SpecIngest == StoreInit /\ [][IngestNext]_vars

\* one call of _context_from_retriever on a RAGChain built with any
\* max_context_len and include_sources, for any retrieval result
AsmInit ==
    /\ a_pc = "input"
    /\ a_docs \in RetrievalResults
    /\ a_L \in 0..MaxL
    /\ a_inc \in BOOLEAN
    /\ a_body = <<>>
    /\ a_out = <<>>
    /\ JobIdle
    /\ ChainIdle
    /\ StoreIdle
    /\ MemIdle
    /\ ApiIdle
    /\ PathIdle

AssembleContext ==
    /\ a_pc = "input"
    /\ a_body' = Truncate(Merged(a_docs), a_L)
    /\ a_out' = AppendSources(a_body', a_docs, a_inc)
    /\ a_pc' = "done"
    /\ UNCHANGED <<a_docs, a_L, a_inc>>
    /\ UNCHANGED nonAsmVars

AsmNext == AssembleContext

SpecAsm == AsmInit /\ [][AsmNext]_vars

\* ---------------------------------------------------------------- claims
Terminal == {"returned", "raised"}

InsuranceIds == {id \in DOMAIN tasks : tasks[id].kind = "insurance"}

StatusOf(rec) ==
    IF rec.pc = "returned" THEN "done"
    ELSE IF rec.pc = "raised" THEN "failed"
    ELSE "pending"

\* C1: a finished insurance job whose retrieval and generation calls
\* succeeded has written reports_dir/<task_id>.pdf, and get_report_path
\* returns that path.
ArtifactWrittenOnSuccess ==
    \A id \in InsuranceIds :
        (tasks[id].generated /\ tasks[id].pc \in Terminal)
            => get_report_path(id) = ReportPath(id)

\* C2: a task starts as pending, and once its status is done or failed the
\* task never changes again, whatever the other tasks do.
TerminalStatusIsFinal ==
    [][ /\ \A id \in DOMAIN tasks :
              /\ id \in DOMAIN tasks'
              /\ StatusOf(tasks[id]) \in {"done", "failed"} => tasks'[id] = tasks[id]
        /\ \A id \in DOMAIN tasks' \ DOMAIN tasks :
              StatusOf(tasks'[id]) = "pending" ]_vars

TerminalBesideRunning ==
    \E id1, id2 \in DOMAIN tasks :
        /\ Status(id1) = "failed"
        /\ Status(id2) = "pending"
        /\ tasks[id2].pc \notin {"created"}

ErrorsPropagate ==
    \A id \in DOMAIN tasks :
        tasks[id].fault # "none"
            => /\ tasks[id].pc = "raised"
               /\ tasks[id].outcome = tasks[id].fault

RenderErrorSurfaced ==
    \E id \in InsuranceIds :
        /\ tasks[id].pc = "raised"
        /\ tasks[id].outcome = "TypeError"

\* C6 as stated: a report job that got its report text invoked the LLM
\* exactly once.
LLMInvokedOnce ==
    \A id \in InsuranceIds :
        tasks[id].generated
            => tasks[id].rag_llm_calls + tasks[id].report_llm_calls = 1

\* C6 amended: the report chain invokes the LLM once and never retries; with
\* use_rag the RAG chain invokes it once more to write the context.
LLMInvocationCount ==
    \A id \in InsuranceIds :
        /\ tasks[id].report_llm_calls <= 1
        /\ tasks[id].rag_llm_calls <= 1
        /\ tasks[id].generated
             => /\ tasks[id].report_llm_calls = 1
                /\ tasks[id].rag_llm_calls = IF tasks[id].use_rag THEN 1 ELSE 0

TwoLLMCallsWithRag ==
    \E id \in InsuranceIds :
        /\ tasks[id].use_rag
        /\ tasks[id].generated
        /\ tasks[id].rag_llm_calls + tasks[id].report_llm_calls = 2

\* C7 as stated: the rag_context given to the template is empty when
\* use_rag is false or the retriever returned no chunk.
EmptyContextWhenNoChunks ==
    \A id \in InsuranceIds :
        (/\ tasks[id].report_llm_calls > 0
         /\ \/ ~tasks[id].use_rag
            \/ tasks[id].retrieved /\ tasks[id].docs = <<>>)
            => tasks[id].rag_ctx = <<>>

\* C7 amended: the rag_context given to the template is empty when use_rag
\* is false; with use_rag it is the RAG chain's LLM answer, and the context
\* assembled from no chunk is the sources header, not the empty string.
GroundingContext ==
    \A id \in InsuranceIds :
        tasks[id].report_llm_calls > 0
            => /\ ~tasks[id].use_rag => tasks[id].rag_ctx = <<>>
               /\ tasks[id].use_rag
                    => /\ tasks[id].retrieved
                       /\ tasks[id].rag_llm_calls = 1
                       /\ tasks[id].rag_ctx = tasks[id].rag_answer
                       /\ tasks[id].docs = <<>> => tasks[id].context = SourcesHeader

NoRagEmptyContext ==
    \E id \in InsuranceIds :
        /\ ~tasks[id].use_rag
        /\ tasks[id].report_llm_calls > 0
        /\ tasks[id].rag_ctx = <<>>

\* C8: the body is at most L + len(marker) long; when the merged text is
\* longer than L it is the first L characters followed by the marker, else
\* the merged text itself; it ends with the marker iff it was truncated.
BodyLengthBound ==
    a_pc = "done" =>
        LET merged == Merged(a_docs)
        IN  /\ Len(a_body) <= a_L + Len(TruncationMarker)
            /\ Len(merged) > a_L
                 => /\ Len(a_body) = a_L + Len(TruncationMarker)
                    /\ SubSeq(a_body, 1, a_L) = SubSeq(merged, 1, a_L)
                    /\ SubSeq(a_body, a_L + 1, Len(a_body)) = TruncationMarker
            /\ Len(merged) <= a_L => a_body = merged
            /\ EndsWith(a_body, TruncationMarker) <=> Len(merged) > a_L

TruncatedBody ==
    /\ a_pc = "done"
    /\ a_L > 0
    /\ Len(a_docs) = MaxDocs
    /\ Len(Merged(a_docs)) > a_L

\* C9 as stated: the returned context is at most L + len(marker) long,
\* whatever include_sources is.
ContextLengthBound ==
    a_pc = "done" => Len(a_out) <= a_L + Len(TruncationMarker)

RECURSIVE SourceLinesLen(_)
SourceLinesLen(docs) ==
    IF docs = <<>> THEN 0
    ELSE 2 + (IF Head(docs).metadata.has_source THEN Len(Head(docs).metadata.source)
                                                ELSE Len(Unknown))
           + (IF Len(docs) > 1 THEN 1 ELSE 0) + SourceLinesLen(Tail(docs))

\* C9 amended: without sources the context is at most L + len(marker) long;
\* with sources it is the body, itself within that bound, plus the sources
\* section, which is outside the budget.
ContextLengthBoundAmended ==
    a_pc = "done" =>
        /\ ~a_inc => Len(a_out) <= a_L + Len(TruncationMarker)
        /\ a_inc
             => /\ Len(a_out) = Len(a_body) + Len(SourcesHeader) + SourceLinesLen(a_docs)
                /\ Len(a_body) <= a_L + Len(TruncationMarker)

ContextOverBudget ==
    /\ a_pc = "done"
    /\ a_inc
    /\ Len(a_out) > a_L + Len(TruncationMarker)

RECURSIVE ExpectedSourceLines(_)
ExpectedSourceLines(docs) ==
    IF docs = <<>> THEN <<>>
    ELSE LET n == Len(docs)
             m == docs[n].metadata
             line == <<"-", " ">> \o (IF m.has_source THEN m.source ELSE Unknown)
         IN  IF n = 1 THEN line
             ELSE ExpectedSourceLines(SubSeq(docs, 1, n - 1)) \o <<NL>> \o line

\* C10: with include_sources the context is the body that include_sources
\* false gives, then the sources header, then one "- source" line per chunk
\* in chunk order, repeated sources kept, "unknown" for a missing source.
SourcesAppended ==
    (a_pc = "done" /\ a_inc) =>
        a_out = ContextFromRetriever(a_docs, a_L, FALSE)
                    \o SourcesHeader \o ExpectedSourceLines(a_docs)

SharedAndMissingSources ==
    /\ a_pc = "done"
    /\ a_inc
    /\ Len(a_docs) = 2
    /\ a_docs[1].metadata = a_docs[2].metadata
    /\ ~a_docs[1].metadata.has_source
    /\ Len(Merged(a_docs)) > a_L


\* ------------------------------------------------------- claims C11..C20
\* C11: template selection always returns a template: the type's own for a
\* key equal to fire, oil_spill, collision or crew_injury ignoring case, and
\* the generic one for every other key, "UNKNOWN", "" and None included.
TemplateSelectionTotal ==
    c_pc = "done" =>
        /\ c_template \in {Templates[k] : k \in DOMAIN Templates} \cup {GenericTemplate}
        /\ c_key \in {"fire", "FIRE", "Fire"} => c_template = "_fire_template"
        /\ c_key \in {"oil_spill", "OIL_SPILL"} => c_template = "_oil_template"
        /\ c_key \in {"collision", "Collision"} => c_template = "_collision_template"
        /\ c_key \in {"crew_injury", "Crew_Injury"} => c_template = "_injury_template"
        /\ c_key \in {NoneV, "", "UNKNOWN", "generic", "fire "}
             => c_template = "_generic_template"

UpperCaseKeySelected ==
    /\ c_pc = "done"
    /\ c_key = "OIL_SPILL"
    /\ c_template = "_oil_template"

\* C12: resolving the incident type of a job never raises: whatever the
\* request type and whether or not the payload has an incident_type key, the
\* job gets a lowercase type string.
IncidentTypeResolves ==
    \A id \in InsuranceIds : tasks[id].fault # "AttributeError"

\* C13: the formatted incident data is one "- label: value" line for each of
\* incident_type, description, location, report_type and language that holds
\* a non-empty value, in that order and with the field's label; missing, None
\* and empty fields give no line, other keys never show, and no line at all
\* gives the no-data placeholder.
IncidentDataFormat ==
    c_pc = "done" =>
        LET present == SelectSeq(FieldOrder,
                           LAMBDA k : c_data[k].kind = "str" /\ c_data[k].val # <<>>)
            expected == [i \in 1..Len(present) |->
                           <<"-", " ">> \o LabelMap[present[i]] \o <<":", " ">>
                               \o c_data[present[i]].val]
        IN  /\ present = <<>> => c_formatted = NoDataPlaceholder
            /\ present # <<>> => c_formatted = Join(expected, <<NL>>)
            /\ \A i \in 1..Len(c_formatted) : c_formatted[i] # "z"

SparseDataFormatted ==
    /\ c_pc = "done"
    /\ c_data["incident_type"] = FieldNone
    /\ c_data["description"] = [kind |-> "str", val |-> <<"p">>]
    /\ c_data["location"] = [kind |-> "str", val |-> <<>>]
    /\ c_data["report_type"] = FieldMissing
    /\ c_data["language"] = [kind |-> "str", val |-> <<"p">>]
    /\ c_data[ExtraField] = [kind |-> "str", val |-> <<"z">>]
    /\ c_formatted = <<"-", " ", "seol", "myeong", ":", " ", "p", NL,
                       "-", " ", "eon", "eo", ":", " ", "p">>

\* calls of add on a collection, and the chunk counts they returned
AddsOn(collection) == {id \in DOMAIN s_calls : s_calls[id].collection = collection}

RECURSIVE SumReturned(_)
SumReturned(ids) ==
    IF ids = {} THEN 0
    ELSE LET id == CHOOSE i \in ids : TRUE
         IN  s_calls[id].returned + SumReturned(ids \ {id})

CountBefore(collection) == Cardinality({ch \in s_disk[collection] : ch.call = 0})

CollectionIsolation ==
    /\ [](/\ \A c \in Collections : \A ch \in s_disk[c] : ch.origin = c
          /\ \A ch \in s_result.docs : ch.origin = s_result.collection)
    /\ [][/\ \A c \in Collections :
              s_disk'[c] # s_disk[c] =>
                  \E id \in DOMAIN s_calls :
                      /\ s_calls[id].collection = c
                      /\ s_calls'[id].pc # s_calls[id].pc
          /\ (s_result' # s_result /\ s_result'.op = "count") =>
                s_result'.n = Cardinality({ch \in UNION {s_disk[c] : c \in Collections} :
                                             ch.origin = s_result'.collection})]_vars

BothCollectionsFilled ==
    /\ \E id \in DOMAIN s_calls :
          s_calls[id].collection = "A" /\ s_calls[id].pc = "returned"
    /\ s_disk["A"] # {}
    /\ s_disk["B"] # {}
    /\ s_result.op = "retrieve"
    /\ s_result.collection = "B"
    /\ s_result.docs # {}

\* C17: history_text gives one "role: content" line per message for the
\* last 20 messages of the session, oldest first, the role being that of the
\* message's speaker; all messages when the session has fewer than 20, and
\* nothing for a session that does not exist.
HistoryWindowRendered ==
    [][sessions' = sessions =>
         LET msgs == IF h_sid' \in DOMAIN sessions THEN sessions[h_sid'] ELSE <<>>
             n == Len(msgs)
             skipped == IF n > 20 THEN n - 20 ELSE 0
             lines == [i \in 1..(n - skipped) |->
                         (IF msgs[skipped + i].type = "human"
                          THEN <<"sa", "yong", "ja">> ELSE <<"A", "I">>)
                             \o <<":", " ">> \o msgs[skipped + i].content]
         IN  /\ h_text' = Join(lines, <<NL>>)
             /\ Len(lines) <= 20
             /\ n < 20 => Len(lines) = n]_vars

LongHistoryRendered ==
    /\ h_sid = CallerSid
    /\ Len(sessions[CallerSid]) = HistoryWindow + 2
    /\ sessions[CallerSid][1].type = "human"
    /\ sessions[CallerSid][HistoryWindow + 2].type = "ai"
    /\ h_text = HistoryText(sessions, CallerSid)

\* C18: tasks never target the same artifact path: the paths of two tasks
\* with distinct ids differ, whatever the kinds of the tasks, and a file in
\* the artifact store is the target of one task only.
ArtifactPathsDistinct ==
    /\ \A id1, id2 \in DOMAIN tasks :
          (id1 # id2 /\ tasks[id1].path # NoPath /\ tasks[id2].path # NoPath)
              => tasks[id1].path # tasks[id2].path
    /\ \A id \in DOMAIN tasks : tasks[id].path \in {NoPath, <<ReportsDir, id, ".pdf">>}
    /\ \A f \in files : Cardinality({id \in DOMAIN tasks : tasks[id].path = f.path}) <= 1

TwoKindsSavingAtOnce ==
    \E id1, id2 \in DOMAIN tasks :
        /\ tasks[id1].kind = "insurance"
        /\ tasks[id2].kind = "qa"
        /\ tasks[id1].pc = "saving"
        /\ tasks[id2].pc = "saving"
        /\ tasks[id1].path # NoPath
        /\ tasks[id2].path # NoPath

\* C19: every request for an insurance report is answered with a freshly
\* minted task id, and exactly one background job is queued under that id.
IncidentRequestScheduled ==
    \A i \in DOMAIN p_responses :
        p_responses[i].endpoint = "generate/insurance" =>
            /\ p_responses[i].status = 200
            /\ p_responses[i].task_id \in p_minted
            /\ \A j \in DOMAIN p_responses :
                  j # i => p_responses[j].task_id # p_responses[i].task_id
            /\ Cardinality({j \in DOMAIN p_scheduled :
                              /\ p_scheduled[j].task_id = p_responses[i].task_id
                              /\ p_scheduled[j].fn = "generate_insurance_report_pdf"}) = 1

\* ------------------------------------------------------- claims C21..C24
\* C21: get_report_path(task_id) gives reports_dir/<task_id>.pdf when a file
\* is there and nothing otherwise, whatever the tasks in memory are doing; the
\* call changes no task, no file and no session; and the path it looks at is
\* the path the job of that id saves to.
ReportPathLookup ==
    /\ [](\A id \in DOMAIN tasks :
            tasks[id].path \in {NoPath, <<ReportsDir, id, ".pdf">>})
    /\ [][(g_task' # g_task \/ g_result' # g_result) =>
            /\ tasks' = tasks
            /\ files' = files
            /\ sessions' = sessions
            /\ g_result' = IF \E f \in files : f.path = <<ReportsDir, g_task', ".pdf">>
                           THEN <<ReportsDir, g_task', ".pdf">>
                           ELSE <<>>]_vars

OldReportFoundBesideFailedTask ==
    /\ g_task = OldTaskId
    /\ g_result = ReportPath(OldTaskId)
    /\ \E id \in DOMAIN tasks : tasks[id].pc = "raised" /\ tasks[id].path # NoPath

\* C22: in a job with retrieval, the keyword hint of the seed query and the
\* report template are picked by the same incident type, for every incident
\* type argument and every incident_type of the payload.
SeedHintMatchesTemplate ==
    \A id \in InsuranceIds :
        (tasks[id].use_rag /\ tasks[id].template # NoneV) =>
            /\ tasks[id].seed_hint # NoneV
            /\ tasks[id].seed_hint = "fire_hint" <=> tasks[id].template = "_fire_template"
            /\ tasks[id].seed_hint = "oil_spill_hint" <=> tasks[id].template = "_oil_template"
            /\ tasks[id].seed_hint = "collision_hint"
                 <=> tasks[id].template = "_collision_template"
            /\ tasks[id].seed_hint = "crew_injury_hint"
                 <=> tasks[id].template = "_injury_template"
            /\ tasks[id].seed_hint = "generic_hint"
                 <=> tasks[id].template = "_generic_template"

PayloadTypePicksBoth ==
    \E id \in InsuranceIds :
        /\ tasks[id].use_rag
        /\ tasks[id].incident_type = NoneV
        /\ tasks[id].payload_type = "OIL_SPILL"
        /\ tasks[id].seed_hint = "oil_spill_hint"
        /\ tasks[id].template = "_oil_template"

\* the jobs that run qa_with_memory
QaTasks == {id \in DOMAIN tasks : tasks[id].kind = "qa"}

\* C23: a qa_with_memory call reads the history first and appends nothing
\* while it does; it then appends the user question and, after it, the AI
\* answer, one message each and nothing else, to its own session; a call
\* whose RAG call raised has appended nothing to any session.
QaMemoryUpdate ==
    /\ [](\A id \in QaTasks :
            (tasks[id].session_id = NoSid /\ tasks[id].pc # "created") =>
                sessions[tasks[id].sid] =
                    IF tasks[id].pc \in {"retrieving", "rag_llm", "add_user"}
                       \/ tasks[id].fault \in {"RetrievalError", "GenerationError"}
                    THEN <<>>
                    ELSE IF tasks[id].pc = "add_ai"
                    THEN <<[type |-> "human", content |-> Question]>>
                    ELSE <<[type |-> "human", content |-> Question],
                           [type |-> "ai", content |-> tasks[id].answer]>>)
    /\ [][\A id \in QaTasks :
            tasks'[id] # tasks[id] =>
                LET before == tasks[id]
                    after == tasks'[id]
                IN  /\ before.pc = "created" =>
                          /\ \A s \in DOMAIN sessions : sessions'[s] = sessions[s]
                          /\ \A s \in DOMAIN sessions' \ DOMAIN sessions : sessions'[s] = <<>>
                          /\ after.prompt_history = HistoryText(sessions, after.sid)
                    /\ before.pc \in {"retrieving", "rag_llm", "saving"} =>
                          sessions' = sessions
                    /\ before.pc = "add_user" =>
                          sessions' = [sessions EXCEPT ![before.sid] =
                                         Append(@, [type |-> "human", content |-> Question])]
                    /\ before.pc = "add_ai" =>
                          sessions' = [sessions EXCEPT ![before.sid] =
                                         Append(@, [type |-> "ai", content |-> before.answer])]
         ]_vars

QaAnsweredBesideQaFailed ==
    \E id1, id2 \in QaTasks :
        /\ tasks[id1].pc = "saving"
        /\ tasks[id1].session_id = CallerSid
        /\ Len(sessions[CallerSid]) = 2
        /\ tasks[id2].fault = "GenerationError"
        /\ sessions[tasks[id2].sid] = <<>>

\* C24: a request to ingest_urls without urls, or to ingest_texts without
\* texts, is answered with status 400, and nothing is added to the index.
EmptyIngestRejected ==
    \A i \in DOMAIN p_responses :
        LET r == p_responses[i]
            list == IF r.endpoint = "ingest/urls" THEN r.req.urls ELSE r.req.texts
        IN  (~list.given \/ list.items = <<>>) => (r.status = 400 /\ r.added = 0)

====
